---- MODULE Spec2Model ----
(***************************************************************************)
(* Model of the VPN Gate server-list tools:                                *)
(*   update_servers.py  download, parse, filter, probe (thread pool of     *)
(*                      TCP connects), rank, truncate, write servers.json  *)
(*   gen_servers.py     parse a local CSV, filter, rank, truncate, write   *)
(*                                                                         *)
(* Representation.  A CSV line is the sequence of its comma-separated      *)
(* fields (the value of line.split(',')).  The numeric fields (score,      *)
(* ping, speed, session count) are sequences of characters, so that int()  *)
(* is computed digit by digit; the other fields are strings.  A config     *)
(* blob is a base64 text named by a string; B64Decode gives the token      *)
(* sequence of the text it encodes, or raises.  The feed uses LF line      *)
(* ends.  The network is a table (ip, port) -> connect result that is      *)
(* fixed for the duration of a run.  Tasks that are identical records are  *)
(* kept in bags, so the pool is modelled up to the identity of equal work. *)
(***************************************************************************)
EXTENDS Integers, Sequences, FiniteSets, Bags, TLC

(***************************************************************************)
(* Program constants                                                       *)
(***************************************************************************)
MIN_FIELDS == 15
SCORE_THRESHOLD == 100000
TOP_CANDIDATES == 50
MAX_WORKERS == 10
TOP_N == 20
DEFAULT_PORT == 443
ALT_PORTS == <<443, 1194, 992, 995>>

GOOGLE_ACCESSIBLE_COUNTRIES ==
  {"JP", "US", "KR", "TW", "SG", "HK", "DE", "GB", "FR", "NL", "AU", "CA",
   "SE", "CH", "NO", "FI", "DK", "BE", "AT", "IT", "ES", "PT", "IE", "NZ",
   "PL", "CZ", "RO", "HU", "TH", "MY", "PH", "VN", "IN", "ID"}

GOOGLE_COUNTRIES ==
  {"JP", "US", "KR", "TW", "SG", "HK", "DE", "GB", "FR", "NL", "AU", "CA"}

\* The exception classes caught by the row handler of parse_vpngate_csv.
CAUGHT == {"ValueError", "IndexError"}

None == "None"

(***************************************************************************)
(* Bounds of the model                                                     *)
(***************************************************************************)
\* Longest list of data rows drawn freely from the row vocabulary.
MaxRows == 2
\* How many rows the bulk feeds hold beyond the cut they exercise.
BulkExtra == 1

(***************************************************************************)
(* int(): optional sign, then one or more decimal digits.                  *)
(***************************************************************************)
DigitValue ==
  [c \in {"0", "1", "2", "3", "4", "5", "6", "7", "8", "9"} |->
     CASE c = "0" -> 0 [] c = "1" -> 1 [] c = "2" -> 2 [] c = "3" -> 3
       [] c = "4" -> 4 [] c = "5" -> 5 [] c = "6" -> 6 [] c = "7" -> 7
       [] c = "8" -> 8 [] c = "9" -> 9]

IsDigits(text) ==
  /\ text # <<>>
  /\ \A i \in 1..Len(text) : text[i] \in DOMAIN DigitValue

RECURSIVE DigitsValue(_)
DigitsValue(text) ==
  IF text = <<>> THEN 0
  ELSE 10 * DigitsValue(SubSeq(text, 1, Len(text) - 1)) + DigitValue[text[Len(text)]]

\* int(text): [err |-> "none", val |-> n] or [err |-> "ValueError", val |-> 0]
ParseInt(text) ==
  LET signed == text # <<>> /\ text[1] \in {"-", "+"}
      body   == IF signed THEN Tail(text) ELSE text
  IN  IF IsDigits(body)
      THEN [err |-> "none",
            val |-> IF signed /\ text[1] = "-" THEN 0 - DigitsValue(body)
                    ELSE DigitsValue(body)]
      ELSE [err |-> "ValueError", val |-> 0]

\* Mutant of IntField: the empty field is not defaulted.
IntField_noDefault(text) == ParseInt(text)

\* int(parts[i]) if parts[i] else 0
IntField(text) ==
  IF text = <<>> THEN [err |-> "none", val |-> 0] ELSE ParseInt(text)

(***************************************************************************)
(* Texts.  A decoded configuration is a sequence of tokens; a token is a   *)
(* word, or a numeral kept as its digits.                                  *)
(***************************************************************************)
Word(w) == [word |-> w, digits |-> <<>>]
Numeral(d) == [word |-> "", digits |-> d]

\* base64.b64decode(blob).decode('utf-8', errors='ignore') on the blobs of
\* the vocabulary: the tokens of the decoded text, or the exception raised.
B64Decode(blob) ==
  CASE blob = "B64_REMOTE_1194_TCP" ->
         [err |-> "none",
          text |-> <<Word("dev"), Word("tun"), Word("proto"), Word("tcp"),
                     Word("remote"), Word("host-a"), Numeral(<<"1", "1", "9", "4">>)>>]
    [] blob = "B64_REMOTE_8080" ->
         [err |-> "none",
          text |-> <<Word("remote"), Word("host-b"), Numeral(<<"8", "0", "8", "0">>)>>]
    [] blob = "B64_NO_REMOTE" ->
         [err |-> "none", text |-> <<Word("dev"), Word("tun"), Word("remote")>>]
    [] blob = "" ->
         [err |-> "none", text |-> <<>>]
    [] OTHER ->
         [err |-> "binascii.Error", text |-> <<>>]

\* re.search(r'remote\s+(\S+)\s+(\d+)', config): the leftmost position of a
\* token "remote" followed by any token and then a numeral; 0 when none.
RemoteMatch(config) ==
  LET hits == {i \in 1..Len(config) :
                 /\ i + 2 <= Len(config)
                 /\ config[i].word = "remote"
                 /\ IsDigits(config[i + 2].digits)}
  IN  IF hits = {} THEN 0 ELSE CHOOSE i \in hits : \A j \in hits : i <= j

\* re.search(r'proto\s+(tcp|udp)', config)
ProtoMatch(config) ==
  LET hits == {i \in 1..Len(config) :
                 /\ i + 1 <= Len(config)
                 /\ config[i].word = "proto"
                 /\ config[i + 1].word \in {"tcp", "udp"}}
  IN  IF hits = {} THEN 0 ELSE CHOOSE i \in hits : \A j \in hits : i <= j

\* parse_openvpn_config: (host, port, proto), or (None, None, None) when the
\* blob does not decode or holds no remote directive.
parse_openvpn_config(config_base64) ==
  LET dec == B64Decode(config_base64)
      m   == RemoteMatch(dec.text)
      p   == ProtoMatch(dec.text)
  IN  IF dec.err # "none" \/ m = 0
      THEN [host |-> None, port |-> 0, proto |-> None, found |-> FALSE]
      ELSE [host  |-> dec.text[m + 1].word,
            port  |-> DigitsValue(dec.text[m + 2].digits),
            proto |-> IF p = 0 THEN "udp" ELSE dec.text[p + 1].word,
            found |-> TRUE]

(***************************************************************************)
(* Lines.  A line of the feed is a string; Split gives the value of        *)
(* line.split(',') for the lines of the vocabulary.  The lines are named   *)
(* by their first field.                                                   *)
(***************************************************************************)
Row(host, ip, score, ping, speed, cl, cs, sess, cfg) ==
  <<host, ip, score, ping, speed, cl, cs, sess, "0", "0", "0", "2weeks", "op", "", cfg>>

T500000 == <<"5", "0", "0", "0", "0", "0">>
T300000 == <<"3", "0", "0", "0", "0", "0">>
T50000  == <<"5", "0", "0", "0", "0">>
TSpeed  == <<"1", "3", "1", "0", "7", "2">>

HeaderLine == "#HostName"
StarHeaderLine == "*HostName"
CommentLine == "*"
BlankLine == ""
RowA == "vpn-a"
RowB == "vpn-b"
RowX == "vpn-x"
RowBulk == "vpn-k"
RowLow == "vpn-l"
RowCN == "vpn-c"
RowZero == "vpn-z"
RowBadScore == "vpn-s"
RowBadPing == "vpn-p"
RowNoConfig == "vpn-n"
RowShort == "vpn-short"

FieldsA == Row("vpn-a", "10.0.0.1", T500000, <<"1", "2">>, TSpeed, "Japan", "JP",
               <<"7">>, "B64_REMOTE_1194_TCP")

\* line.split(',')
Split(line) ==
  CASE line = HeaderLine ->
         <<"#HostName", "IP", <<"S">>, <<"P">>, <<"S">>, "CountryLong",
           "CountryShort", <<"N">>, "Uptime", "TotalUsers", "TotalTraffic",
           "LogType", "Operator", "Message", "OpenVPN_ConfigData_Base64">>
    [] line = StarHeaderLine -> <<"*HostName">>
    [] line = CommentLine -> <<"*">>
    [] line = BlankLine -> <<"">>
    [] line = RowA -> FieldsA
       \* same score as RowA; empty ping and session count
    [] line = RowB ->
         Row("vpn-b", "10.0.0.2", T500000, <<>>, TSpeed, "Sweden", "SE",
             <<>>, "B64_REMOTE_8080")
       \* a blob that does not decode
    [] line = RowX ->
         Row("vpn-x", "10.0.0.3", T300000, <<"9">>, TSpeed, "Korea", "KR",
             <<"1">>, "B64_BAD_PADDING")
    [] line = RowBulk ->
         Row("vpn-k", "10.0.0.9", T300000, <<"3", "0">>, TSpeed, "United States",
             "US", <<"2">>, "B64_NO_REMOTE")
    [] line = RowLow ->
         Row("vpn-l", "10.0.0.4", T50000, <<"5">>, TSpeed, "Japan", "JP",
             <<"1">>, "B64_NO_REMOTE")
    [] line = RowCN ->
         Row("vpn-c", "10.0.0.5", T500000, <<"5">>, TSpeed, "China", "CN",
             <<"1">>, "B64_NO_REMOTE")
    [] line = RowZero ->
         Row("vpn-z", "10.0.0.6", <<>>, <<>>, <<>>, "Japan", "JP", <<>>,
             "B64_NO_REMOTE")
    [] line = RowBadScore ->
         Row("vpn-s", "10.0.0.7", <<"a", "b", "c">>, <<"5">>, TSpeed, "Japan",
             "JP", <<"1">>, "B64_NO_REMOTE")
    [] line = RowBadPing ->
         Row("vpn-p", "10.0.0.8", T500000, <<"1", "x">>, TSpeed, "Japan", "JP",
             <<"1">>, "B64_NO_REMOTE")
    [] line = RowNoConfig ->
         Row("vpn-n", "10.0.0.10", T500000, <<"5">>, TSpeed, "Japan", "JP",
             <<"1">>, "")
    [] line = RowShort -> SubSeq(FieldsA, 1, MIN_FIELDS - 1)

\* line.startswith(prefix), for the prefixes the scripts test
StartsWith(line, prefix) ==
  \/ Split(line)[1] = prefix
  \/ prefix = "*" /\ Split(line)[1] = "*HostName"

\* not line.strip(): the line holds nothing but white space
IsBlank(line) == line = ""

(***************************************************************************)
(* parse_vpngate_csv                                                       *)
(***************************************************************************)
\* One data row: the handler body of the loop of parse_vpngate_csv.
\*   kind "skip"   the row yields nothing (short, no config, or an exception
\*                 that the handler catches)
\*   kind "server" the row yields the record `server`
\*   kind "raise"  an exception leaves the loop
NoServer ==
  [hostname |-> "", ip |-> "", score |-> 0, ping |-> 0, speed |-> 0,
   country_long |-> "", country_short |-> "", vpn_sessions |-> 0,
   config_base64 |-> ""]

ParseRow(parts) ==
  IF Len(parts) < MIN_FIELDS THEN [kind |-> "skip", server |-> NoServer]
  ELSE
    LET score        == IntField(parts[3])
        ping         == IntField(parts[4])
        speed        == IntField(parts[5])
        vpn_sessions == IntField(parts[8])
        errs == {r.err : r \in {score, ping, speed, vpn_sessions}} \ {"none"}
    IN  IF errs # {}
        THEN IF errs \subseteq CAUGHT
             THEN [kind |-> "skip", server |-> NoServer]
             ELSE [kind |-> "raise", server |-> NoServer]
        ELSE IF parts[15] = ""
        THEN [kind |-> "skip", server |-> NoServer]
        ELSE [kind |-> "server",
              server |-> [hostname      |-> parts[1],
                          ip            |-> parts[2],
                          score         |-> score.val,
                          ping          |-> ping.val,
                          speed         |-> speed.val,
                          country_long  |-> parts[6],
                          country_short |-> parts[7],
                          vpn_sessions  |-> vpn_sessions.val,
                          config_base64 |-> parts[15]]]

\* The index of the header line, 0 when there is none.
HeaderIndex(lines) ==
  LET hits == {i \in 1..Len(lines) :
                 StartsWith(lines[i], "#HostName") \/ StartsWith(lines[i], "*HostName")}
  IN  IF hits = {} THEN 0 ELSE CHOOSE i \in hits : \A j \in hits : i <= j

\* One line after the header: lines that start with '*' and blank lines are
\* passed over, the others go through the row handler.
ParseLine(line) ==
  IF StartsWith(line, "*") \/ IsBlank(line)
  THEN [kind |-> "skip", server |-> NoServer]
  ELSE ParseRow(Split(line))

IsServer(row) == row.kind = "server"

\* The loop over the data lines, from line `first` on: the records of the
\* rows that yield one, in order, unless an exception leaves the loop.
ParseFrom(lines, first) ==
  LET rows == [i \in 1..(Len(lines) + 1 - first) |-> ParseLine(lines[first + i - 1])]
      kept == SelectSeq(rows, IsServer)
  IN  IF \E i \in 1..Len(rows) : rows[i].kind = "raise"
      THEN [servers |-> <<>>, raised |-> TRUE]
      ELSE [servers |-> [i \in 1..Len(kept) |-> kept[i].server], raised |-> FALSE]

\* parse_vpngate_csv(csv_data)
parse_vpngate_csv(lines) ==
  LET header_idx == HeaderIndex(lines)
  IN  IF header_idx = 0 THEN [servers |-> <<>>, raised |-> FALSE]
      ELSE ParseFrom(lines, header_idx + 1)

(***************************************************************************)
(* Ranking and output records                                              *)
(***************************************************************************)
Min(a, b) == IF a <= b THEN a ELSE b

\* Mutant of Take: the slice is one element too long.
Take_oneMore(s, n) == SubSeq(s, 1, Min(n + 1, Len(s)))

\* s[:n]
Take(s, n) == SubSeq(s, 1, Min(n, Len(s)))

\* list.sort(key=..., reverse=True), given the keys of the elements: the
\* order in which the positions come out, descending by key, equal keys in
\* their original order.  Position i goes to the place after the positions
\* with a greater key and the earlier positions with an equal key.
SortOrder(keys) ==
  LET n     == Len(keys)
      place == SubSeq([i \in 1..n |->
                         Cardinality({j \in 1..n :
                                        keys[j] > keys[i] \/ (keys[j] = keys[i] /\ j <= i)})],
                      1, n)
  IN  SubSeq([p \in 1..n |-> CHOOSE i \in 1..n : place[i] = p], 1, n)

\* s rearranged in the order given
Permuted(s, order) == SubSeq([p \in 1..Len(s) |-> s[order[p]]], 1, Len(s))

\* filtered.sort(key=lambda x: x['score'], reverse=True)
SortServers(s) ==
  Permuted(s, SortOrder(SubSeq([i \in 1..Len(s) |-> s[i].score], 1, Len(s))))

\* working_servers.sort(key=lambda x: x[0]['score'], reverse=True)
SortWorking(s) ==
  Permuted(s, SortOrder(SubSeq([i \in 1..Len(s) |-> s[i][1].score], 1, Len(s))))

\* servers.sort(key=lambda x: x.get('score', 0), reverse=True)
SortGen(s) ==
  Permuted(s, SortOrder(SubSeq([i \in 1..Len(s) |-> s[i].key], 1, Len(s))))

\* round(speed / 1024 / 1024, 2), in hundredths (ties to even)
Throughput(speed) ==
  LET n == speed * 100
      d == 1024 * 1024
      q == n \div d
      r == n % d
  IN  IF 2 * r > d \/ (2 * r = d /\ q % 2 = 1) THEN q + 1 ELSE q

\* convert_to_vpnserver(server, port); the id stands for str(abs(hash(ip))).
\* The second b64decode is not guarded: err tells what it raises.
convert_to_vpnserver(server, port) ==
  LET dec == B64Decode(server.config_base64)
  IN  [err |-> dec.err,
       rec |-> [id          |-> <<"hash", server.ip>>,
                name        |-> server.hostname,
                country     |-> server.country_short,
                city        |-> server.country_long,
                endpoint    |-> server.ip,
                port        |-> port,
                protocol    |-> "OpenVPN",
                config      |-> dec.text,
                username    |-> "vpn",
                password    |-> "vpn",
                psk         |-> "vpn",
                pingLatency |-> server.ping,
                vpnSessions |-> server.vpn_sessions,
                throughput  |-> Throughput(server.speed)]]

\* The filter of main: allow-listed country and score at least the threshold.
PassesFilter(s) ==
  /\ s.country_short \in GOOGLE_ACCESSIBLE_COUNTRIES
  /\ s.score >= SCORE_THRESHOLD

\* filtered = [s for s in servers if ...]
Filter(s) == SelectSeq(s, PassesFilter)

(***************************************************************************)
(* gen_servers.py: the row handler.  readlines() keeps the line end, so    *)
(* the last field of a line carries it: nl tells whether parts[14] ends    *)
(* with the line end.                                                      *)
(***************************************************************************)
GenRow(parts, nl) ==
  IF Len(parts) < MIN_FIELDS THEN [kind |-> "skip"]
  ELSE
    LET score        == IntField(parts[3])
        ping         == IntField(parts[4])
        speed        == IntField(parts[5])
        vpn_sessions == IntField(parts[8])
        errs == {r.err : r \in {score, ping, speed, vpn_sessions}} \ {"none"}
        config_base64 == parts[15]
        truthy == config_base64 # "" \/ (nl /\ Len(parts) = MIN_FIELDS)
        dec  == B64Decode(config_base64)
        m    == RemoteMatch(dec.text)
    IN  IF errs # {} THEN [kind |-> "skip"]
        ELSE IF parts[7] \notin GOOGLE_COUNTRIES THEN [kind |-> "skip"]
        ELSE IF ~truthy \/ score.val < SCORE_THRESHOLD THEN [kind |-> "skip"]
        ELSE [kind |-> "server",
              score |-> score.val,
              rec |-> [id          |-> <<"hash", parts[2]>>,
                       name        |-> parts[1],
                       country     |-> parts[7],
                       city        |-> parts[6],
                       endpoint    |-> parts[2],
                       port        |-> IF dec.err = "none" /\ m # 0
                                       THEN DigitsValue(dec.text[m + 2].digits)
                                       ELSE DEFAULT_PORT,
                       protocol    |-> "OpenVPN",
                       config      |-> dec.text,
                       username    |-> "vpn",
                       password    |-> "vpn",
                       psk         |-> "vpn",
                       pingLatency |-> ping.val,
                       vpnSessions |-> vpn_sessions.val,
                       throughput  |-> Throughput(speed.val)]]

\* '#HostName' in line
GenHeaderIndex(lines) ==
  LET hits == {i \in 1..Len(lines) : Split(lines[i])[1] = "#HostName"}
  IN  IF hits = {} THEN 0 ELSE CHOOSE i \in hits : \A j \in hits : i <= j

\* The loop of gen_servers.main over the data lines, from line `first` on:
\* the [key, item] records (score, output record) of the rows that pass.
GenParseFrom(lines, first, endnl) ==
  LET rows == [i \in 1..(Len(lines) + 1 - first) |->
                 LET n == first + i - 1
                 IN  IF StartsWith(lines[n], "*") \/ IsBlank(lines[n])
                     THEN [kind |-> "skip"]
                     ELSE GenRow(Split(lines[n]), n < Len(lines) \/ endnl)]
      kept == SelectSeq(rows, IsServer)
  IN  [i \in 1..Len(kept) |-> [key |-> kept[i].score, item |-> kept[i].rec]]

(***************************************************************************)
(* Input vocabulary                                                        *)
(***************************************************************************)
\* Rows whose candidates reach the prober from a free feed.
ProbedRows == {RowA, RowB}
\* Rows that end in the parser or the filter.
OtherRows == {RowLow, RowCN, RowZero, RowBadScore, RowBadPing, RowNoConfig,
              RowShort, CommentLine, BlankLine}

RECURSIVE SeqsUpTo(_, _)
SeqsUpTo(S, n) ==
  IF n = 0 THEN {<<>>}
  ELSE LET shorter == SeqsUpTo(S, n - 1)
       IN  shorter \cup {Append(q, x) : q \in {r \in shorter : Len(r) = n - 1}, x \in S}

Repeat(x, n) == [i \in 1..n |-> x]

Ports == {443, 1194, 992, 995, 8080}
AllRefused == [p \in Ports |-> "refused"]
AllRaise == [p \in Ports |-> "raise"]
Only(port) == [p \in Ports |-> IF p = port THEN "ok" ELSE "refused"]
PortMaps == {AllRefused, AllRaise} \cup {Only(p) : p \in Ports}

Ips == {"10.0.0.1", "10.0.0.2", "10.0.0.3", "10.0.0.9"}
IpsOf(lines) ==
  {ip \in Ips : \E i \in 1..Len(lines) : Len(Split(lines[i])) >= 2 /\ Split(lines[i])[2] = ip}

TableOver(present, f) == [ip \in Ips |-> IF ip \in present THEN f[ip] ELSE AllRefused]

\* Feeds whose data rows are drawn freely, with every network table over
\* the addresses they name.
FreeScenarios ==
  UNION {{[feed |-> <<HeaderLine>> \o rows, table |-> TableOver(IpsOf(rows), f)] :
            f \in [IpsOf(rows) -> PortMaps]} :
         rows \in SeqsUpTo(ProbedRows \cup OtherRows, MaxRows)}

\* Feeds without a header, with the other header marker, without data, and
\* with a blob that does not decode.
SpecialScenarios ==
  {[feed |-> <<RowA>>, table |-> TableOver({"10.0.0.1"}, [ip \in Ips |-> Only(1194)])],
   [feed |-> <<StarHeaderLine, RowA>>,
    table |-> TableOver({"10.0.0.1"}, [ip \in Ips |-> Only(1194)])],
   [feed |-> <<>>, table |-> [ip \in Ips |-> AllRefused]]}
  \cup
  {[feed |-> <<HeaderLine, RowX, RowA>>,
    table |-> TableOver({"10.0.0.1", "10.0.0.3"},
                        [ip \in Ips |-> IF ip = "10.0.0.3" THEN x ELSE Only(1194)])] :
     x \in {Only(443), AllRefused}}

\* Feeds around the two cuts: many equal rows that answer on their primary
\* port, with a few better-scored rows before them.
BulkTable(a) ==
  [ip \in Ips |-> IF ip = "10.0.0.9" THEN Only(DEFAULT_PORT)
                  ELSE IF ip = "10.0.0.1" THEN a ELSE AllRefused]

BulkScenarios ==
  {[feed |-> <<HeaderLine>> \o Repeat(RowBulk, TOP_N + BulkExtra),
    table |-> BulkTable(AllRefused)],
   [feed |-> <<HeaderLine>> \o Repeat(RowBulk, TOP_CANDIDATES + BulkExtra),
    table |-> BulkTable(AllRefused)],
   [feed |-> <<HeaderLine>> \o Repeat(RowBulk, TOP_N - 1) \o <<RowA, RowB>>,
    table |-> BulkTable(AllRefused)],
   [feed |-> <<HeaderLine>> \o Repeat(RowBulk, TOP_N + BulkExtra - 1) \o <<RowA>>,
    table |-> BulkTable(Only(1194))]}

Scenarios == FreeScenarios \cup SpecialScenarios \cup BulkScenarios

(***************************************************************************)
(* State                                                                   *)
(***************************************************************************)
VARIABLES
  prog,             \* which script runs: "update" or "gen"
  feed,             \* the lines the feed (or the local file) holds
  eofnl,            \* gen: the file ends with a line end
  table,            \* the network: ip -> port -> connect result
  pc,               \* the position of main
  csv_data,         \* what download_vpngate_data returned: [ok, lines]
  servers,          \* the parsed records
  filtered,         \* the filtered records, ranked
  candidates,       \* filtered[:50]
  tested,           \* the count announced as tested
  nsubmitted,       \* how many candidates were handed to the executor
  queue,            \* the executor's work queue
  running,          \* bag of the tasks a worker thread is executing
  sockets,          \* bag of the open sockets, <<ip, port>>
  done,             \* bag of the results of finished futures not yet yielded
  collected,        \* bag of the results the collection loop has received
  working_servers,  \* the list the collection loop builds
  gen_servers,      \* gen: the list before the cut, [key, item]
  output            \* the output file: [written, servers, version]

vars == <<prog, feed, eofnl, table, pc, csv_data, servers, filtered, candidates,
          tested, nsubmitted, queue, running, sockets, done, collected,
          working_servers, gen_servers, output>>

poolVars == <<queue, running, sockets, done, collected, working_servers>>
inputVars == <<prog, feed, eofnl, table>>

\* download_vpngate_data returned None
NoData == [ok |-> FALSE, lines |-> <<>>]
\* servers.json was not written
NoOutput == [written |-> FALSE, servers |-> <<>>, version |-> ""]

Init ==
  /\ \E sc \in Scenarios :
       /\ feed = sc.feed
       /\ \/ prog = "update" /\ table = sc.table /\ eofnl = TRUE
          \/ prog = "gen" /\ table = [ip \in Ips |-> AllRefused] /\ eofnl \in BOOLEAN
  /\ pc = IF prog = "update" THEN "start" ELSE "g_start"
  /\ csv_data = NoData
  /\ servers = <<>>
  /\ filtered = <<>>
  /\ candidates = <<>>
  /\ tested = 0
  /\ nsubmitted = 0
  /\ queue = <<>>
  /\ running = EmptyBag
  /\ sockets = EmptyBag
  /\ done = EmptyBag
  /\ collected = EmptyBag
  /\ working_servers = <<>>
  /\ gen_servers = <<>>
  /\ output = NoOutput

(***************************************************************************)
(* update_servers.main, sequential part before the probe                   *)
(***************************************************************************)
\* csv_data = download_vpngate_data(); if not csv_data: return
Download ==
  /\ pc = "start"
  /\ \E ok \in BOOLEAN :
       /\ csv_data' = IF ok THEN [ok |-> TRUE, lines |-> feed] ELSE NoData
       /\ pc' = IF ~ok \/ feed = <<>> THEN "end_download_failed" ELSE "parse"
  /\ UNCHANGED <<inputVars, servers, filtered, candidates, tested, nsubmitted,
                 poolVars, gen_servers, output>>

\* servers = parse_vpngate_csv(csv_data); if not servers: return
Parse ==
  /\ pc = "parse"
  /\ LET r == parse_vpngate_csv(csv_data.lines)
     IN  /\ servers' = r.servers
         /\ pc' = IF r.raised THEN "raised_in_parse"
                  ELSE IF r.servers = <<>> THEN "end_no_servers"
                  ELSE "filter"
  /\ UNCHANGED <<inputVars, csv_data, filtered, candidates, tested, nsubmitted,
                 poolVars, gen_servers, output>>

\* filter, sort by score, candidates = filtered[:50], announce the count
FilterRank ==
  /\ pc = "filter"
  /\ filtered' = SortServers(Filter(servers))
  /\ candidates' = Take(filtered', TOP_CANDIDATES)
  /\ tested' = Len(candidates')
  /\ pc' = IF candidates' = <<>> THEN "collect" ELSE "submit"
  /\ UNCHANGED <<inputVars, csv_data, servers, nsubmitted, poolVars, gen_servers, output>>

(***************************************************************************)
(* The probe stage: ThreadPoolExecutor(max_workers=10), one future per     *)
(* candidate, as_completed                                                 *)
(***************************************************************************)
\* executor.submit(test_server, s) for the next candidate
Submit ==
  /\ pc = "submit"
  /\ nsubmitted < Len(candidates)
  /\ queue' = Append(queue, candidates[nsubmitted + 1])
  /\ nsubmitted' = nsubmitted + 1
  /\ pc' = IF nsubmitted' = Len(candidates) THEN "collect" ELSE "submit"
  /\ UNCHANGED <<inputVars, csv_data, servers, filtered, candidates, tested,
                 running, sockets, done, collected, working_servers, gen_servers, output>>

\* Mutant of WorkerAvailable: the pool starts a thread for every work item.
WorkerAvailable_unbounded == TRUE

\* A worker thread is free to take a work item.
WorkerAvailable == BagCardinality(running) < MAX_WORKERS

\* test_server, lines 127-133: the port to try first
PrimaryPort(server) ==
  LET cfg == parse_openvpn_config(server.config_base64)
  IN  IF cfg.port = 0 THEN DEFAULT_PORT ELSE cfg.port

\* The port a task is connecting to: alt = 0 is the primary port,
\* alt = j > 0 is ALT_PORTS[j].
CurrentPort(t) == IF t.alt = 0 THEN t.port ELSE ALT_PORTS[t.alt]

\* Mutant of NextAlt: the fallback loop does not skip the primary port.
NextAlt_noSkip(port, alt) == IF alt < Len(ALT_PORTS) THEN alt + 1 ELSE 0

\* for alt_port in [443, 1194, 992, 995]: if alt_port != port and ...:
\* the position of the next port to try after position alt, 0 when none.
NextAlt(port, alt) ==
  LET later == {j \in (alt + 1)..Len(ALT_PORTS) : ALT_PORTS[j] # port}
  IN  IF later = {} THEN 0 ELSE CHOOSE j \in later : \A k \in later : j <= k

\* test_server_connectivity(ip, port): connect_ex returned 0
test_server_connectivity(ip, port) ==
  IF port \in Ports THEN table[ip][port] = "ok" ELSE FALSE

\* A worker takes the oldest work item and runs test_server up to its first
\* connect: the socket to the primary port is open.
WorkerStart ==
  /\ queue # <<>>
  /\ WorkerAvailable
  /\ LET server == Head(queue)
         port   == PrimaryPort(server)
     IN  /\ running' = running (+) SetToBag({[server |-> server, port |-> port,
                                             alt |-> 0, tried |-> <<port>>]})
         /\ sockets' = sockets (+) SetToBag({<<server.ip, port>>})
  /\ queue' = Tail(queue)
  /\ UNCHANGED <<inputVars, pc, csv_data, servers, filtered, candidates, tested,
                 nsubmitted, done, collected, working_servers, gen_servers, output>>

\* Mutant of ReportedPort: a fallback success is reported with the primary
\* port.
ReportedPort_primary(t) == t.port

\* return server, port, True / return server, alt_port, True: the port
\* reported for a task whose current connect succeeded
ReportedPort(t) == CurrentPort(t)

\* The sockets left open once the connect of task t has returned.
CloseSocket(t) == sockets (-) SetToBag({<<t.server.ip, CurrentPort(t)>>})

\* The connect of a task returns; the socket is closed; test_server returns
\* on success, or goes on to the next port, or returns unreachable.
ConnectReturn ==
  /\ \E t \in BagToSet(running) :
       LET ok   == test_server_connectivity(t.server.ip, CurrentPort(t))
           next == NextAlt(t.port, t.alt)
           rest == running (-) SetToBag({t})
       IN  IF ok
           THEN /\ done' = done (+) SetToBag({[server |-> t.server, port |-> ReportedPort(t),
                                                is_working |-> TRUE, tried |-> t.tried]})
                /\ running' = rest
                /\ sockets' = CloseSocket(t)
           ELSE IF next # 0
           THEN /\ running' = rest (+) SetToBag({[t EXCEPT !.alt = next,
                                                  !.tried = Append(t.tried, ALT_PORTS[next])]})
                /\ sockets' = CloseSocket(t) (+) SetToBag({<<t.server.ip, ALT_PORTS[next]>>})
                /\ done' = done
           ELSE /\ done' = done (+) SetToBag({[server |-> t.server, port |-> t.port,
                                                is_working |-> FALSE, tried |-> t.tried]})
                /\ running' = rest
                /\ sockets' = CloseSocket(t)
  /\ UNCHANGED <<inputVars, pc, csv_data, servers, filtered, candidates, tested,
                 nsubmitted, queue, collected, working_servers, gen_servers, output>>

\* Mutant of Yield: a yielded future stays among the futures to yield.
Yield_again(r) == done

\* as_completed yields a finished future once: the results still to yield
Yield(r) == done (-) SetToBag({r})

\* Mutant of Keep: every result goes to working_servers.
Keep_all(r) == TRUE

\* if is_working: the result goes to working_servers
Keep(r) == r.is_working

\* for future in as_completed(futures): one iteration of the loop body
Collect ==
  /\ pc = "collect"
  /\ \E r \in BagToSet(done) :
       /\ done' = Yield(r)
       /\ collected' = collected (+) SetToBag({r})
       /\ working_servers' = IF Keep(r)
                             THEN Append(working_servers, <<r.server, r.port>>)
                             ELSE working_servers
  /\ UNCHANGED <<inputVars, pc, csv_data, servers, filtered, candidates, tested,
                 nsubmitted, queue, running, sockets, gen_servers, output>>

\* Mutant of AllYielded: the loop is left once 20 working servers are
\* known.
AllYielded_early ==
  \/ BagCardinality(collected) = Len(candidates)
  \/ Len(working_servers) >= TOP_N

\* as_completed has yielded every future and the with block has joined the
\* workers.
AllYielded == BagCardinality(collected) = Len(candidates)

\* Mutant of NothingWorking: the empty-result return is missing.
NothingWorking_never == FALSE

\* if not working_servers: return
NothingWorking == working_servers = <<>>

\* lines 206-231: rank the working servers, cut to 20, convert, write
Assemble ==
  /\ pc = "collect"
  /\ AllYielded
  /\ working_servers' = SortWorking(working_servers)
  /\ LET final_servers == Take(working_servers', TOP_N)
         conv == SubSeq([i \in 1..Len(final_servers) |->
                           convert_to_vpnserver(final_servers[i][1], final_servers[i][2])],
                        1, Len(final_servers))
     IN  IF NothingWorking
         THEN /\ pc' = "end_no_working"
              /\ output' = output
         ELSE /\ IF \E i \in 1..Len(conv) : conv[i].err # "none"
                 THEN /\ pc' = "raised_in_convert"
                      /\ output' = output
                 ELSE /\ pc' = "written"
                      /\ output' = [written |-> TRUE,
                                    servers |-> [i \in 1..Len(conv) |-> conv[i].rec],
                                    version |-> "2.0"]
  /\ UNCHANGED <<inputVars, csv_data, servers, filtered, candidates, tested,
                 nsubmitted, queue, running, sockets, done, collected, gen_servers>>

(***************************************************************************)
(* gen_servers.main                                                        *)
(***************************************************************************)
\* lines 11-80: read the file, find the header, parse and filter the rows
GenParse ==
  /\ pc = "g_start"
  /\ LET header_idx == GenHeaderIndex(feed)
     IN  IF header_idx = 0
         THEN /\ pc' = "g_no_header"
              /\ gen_servers' = gen_servers
         ELSE /\ pc' = "g_parsed"
              /\ gen_servers' = GenParseFrom(feed, header_idx + 1, eofnl)
  /\ UNCHANGED <<inputVars, csv_data, servers, filtered, candidates, tested,
                 nsubmitted, poolVars, output>>

\* lines 82-98: sort by score, keep 20, drop the score, write
GenWrite ==
  /\ pc = "g_parsed"
  /\ gen_servers' = SortGen(gen_servers)
  /\ LET final_servers == Take(gen_servers', TOP_N)
     IN  output' = [written |-> TRUE,
                    servers |-> [i \in 1..Len(final_servers) |-> final_servers[i].item],
                    version |-> "2.0"]
  /\ pc' = "g_written"
  /\ UNCHANGED <<inputVars, csv_data, servers, filtered, candidates, tested,
                 nsubmitted, poolVars>>

Next ==
  \/ Download
  \/ Parse
  \/ FilterRank
  \/ Submit
  \/ WorkerStart
  \/ ConnectReturn
  \/ Collect
  \/ Assemble
  \/ GenParse
  \/ GenWrite

Spec == Init /\ [][Next]_vars

(***************************************************************************)
(* Properties                                                              *)
(***************************************************************************)
\* A TCP connect to (ip, port) succeeds.
Answers(ip, port) == port \in Ports /\ table[ip][port] = "ok"

FallbackList == <<443, 1194, 992, 995>>

\* The ports test_server is to try for a primary port, in order.
AttemptOrder(primary) ==
  <<primary>> \o SelectSeq(FallbackList, LAMBDA p : p # primary)

\* The results of the probe tasks that have returned.
Finished == BagToSet(done) \cup BagToSet(collected)

\* How many elements of a bag satisfy P.
BagCount(bag, P(_)) ==
  LET sel == {x \in BagToSet(bag) : P(x)}
  IN  IF sel = {} THEN 0 ELSE BagCardinality([x \in sel |-> CopiesIn(x, bag)])

CountInSeq(seq, x) == Cardinality({i \in 1..Len(seq) : seq[i] = x})

ProbeStageOver == pc \in {"written", "end_no_working", "raised_in_convert"}

\* The primary port a decoded configuration gives: the port of its remote
\* directive, 443 when it has none (or gives port 0).
ConfigPrimary(config) ==
  LET m == RemoteMatch(config)
  IN  IF m = 0 \/ DigitsValue(config[m + 2].digits) = 0 THEN 443
      ELSE DigitsValue(config[m + 2].digits)

\* C1: test_server tries the primary port first and then 443, 1194, 992,
\* 995 in that order without the primary port; every attempt before the
\* last one made has failed (nothing is tried after a success); a task
\* reports reachable exactly when its last attempt succeeded, at that port;
\* it reports unreachable only after the whole list; and when the primary
\* port fails and exactly one fallback port answers, the result is
\* reachable at that fallback port.
C1_FallbackOrder ==
  /\ \A t \in BagToSet(running) :
       /\ Len(t.tried) <= Len(AttemptOrder(t.tried[1]))
       /\ t.tried = SubSeq(AttemptOrder(t.tried[1]), 1, Len(t.tried))
       /\ \A i \in 1..(Len(t.tried) - 1) : ~Answers(t.server.ip, t.tried[i])
  /\ \A r \in Finished :
       LET order == AttemptOrder(r.tried[1])
           n     == Len(r.tried)
           open  == {i \in 2..Len(order) : Answers(r.server.ip, order[i])}
       IN  /\ n <= Len(order)
           /\ r.tried = SubSeq(order, 1, n)
           /\ \A i \in 1..(n - 1) : ~Answers(r.server.ip, r.tried[i])
           /\ r.is_working <=> Answers(r.server.ip, r.tried[n])
           /\ r.is_working => r.port = r.tried[n]
           /\ ~r.is_working => n = Len(order)
           /\ \A i \in open :
                (open = {i} /\ ~Answers(r.server.ip, order[1]))
                  => (r.is_working /\ r.port = order[i])

\* A task that found its primary port 1194 and the fallbacks 443 and 992
\* closed, and reported the last fallback, 995.
C1_Witness ==
  \E r \in BagToSet(collected) :
    r.is_working /\ r.port = 995 /\ r.tried = <<1194, 443, 992, 995>>

\* C2: the collection loop receives exactly one result per dispatched
\* candidate: at every moment each dispatched candidate is queued, running,
\* finished or received, exactly once; nothing is received that was not
\* dispatched; when the probe stage is over every candidate's result has
\* been received, reachable or not; and at most 50 are dispatched.
C2_OneOutcomeEach ==
  /\ Len(candidates) <= 50
  /\ \A r \in BagToSet(collected) : \E i \in 1..nsubmitted : candidates[i] = r.server
  /\ \A s \in {candidates[k] : k \in 1..Len(candidates)} :
       LET Mine(x)    == x.server = s
           dispatched == CountInSeq(SubSeq(candidates, 1, nsubmitted), s)
           received   == BagCount(collected, Mine)
           pending    == CountInSeq(queue, s) + BagCount(running, Mine)
                           + BagCount(done, Mine)
       IN  /\ received + pending = dispatched
           /\ ProbeStageOver => received = CountInSeq(candidates, s)

\* A finished run in which a reachable and an unreachable candidate were
\* both received.
C2_Witness ==
  /\ pc = "written"
  /\ Len(candidates) >= 2
  /\ \E r1, r2 \in BagToSet(collected) : r1.is_working /\ ~r2.is_working

\* C3: a candidate none of whose ports answers is reported unreachable, no
\* record of the written output is that candidate, and it is counted in
\* the number announced as tested.
C3_UnreachableExcluded ==
  /\ \A r \in Finished :
       (\A i \in 1..Len(AttemptOrder(r.tried[1])) :
          ~Answers(r.server.ip, AttemptOrder(r.tried[1])[i]))
         => ~r.is_working
  /\ (prog = "update" /\ output.written) =>
       \A r \in BagToSet(collected) :
         ~r.is_working =>
           \A i \in 1..Len(output.servers) :
             ~(/\ output.servers[i].endpoint = r.server.ip
               /\ output.servers[i].name = r.server.hostname)
  /\ ProbeStageOver => (tested = Len(candidates) /\ tested = BagCardinality(collected))

\* A written output next to a candidate that failed on its primary port and
\* on all four fallback ports.
C3_Witness ==
  /\ pc = "written"
  /\ \E r \in BagToSet(collected) : ~r.is_working /\ Len(r.tried) = 5
  /\ tested >= 2

\* C4 (as claimed): the written records are the reachable candidates in the
\* order of the ranked candidate list (score descending, ties in filtered
\* order), cut to 20, whatever the order in which the probes completed.
C4_CompletionOrderFree ==
  (prog = "update" /\ output.written) =>
    LET Reached(c) == \E r \in BagToSet(collected) : r.server = c /\ r.is_working
        expected   == SelectSeq(candidates, Reached)
        n          == IF Len(expected) <= 20 THEN Len(expected) ELSE 20
    IN  /\ Len(output.servers) = n
        /\ \A i \in 1..n :
             /\ output.servers[i].name = expected[i].hostname
             /\ output.servers[i].endpoint = expected[i].ip

\* The score behind a written record: that of the received working result
\* it was made from.
ScoreOfRecord(rec) ==
  LET r == CHOOSE x \in BagToSet(collected) :
             /\ x.is_working
             /\ x.server.hostname = rec.name
             /\ x.server.ip = rec.endpoint
  IN  r.server.score

\* How many written records were made from the result r.
WrittenFrom(r) ==
  Cardinality({i \in 1..Len(output.servers) :
                 /\ output.servers[i].name = r.server.hostname
                 /\ output.servers[i].endpoint = r.server.ip})

IsWorking(r) == r.is_working

\* C5 (as claimed): when more than 20 candidates pass the filter, the
\* written output holds exactly 20 records, those of the 20 best-scored
\* filtered candidates.
C5_ExactlyTwenty ==
  /\ (prog = "update" /\ output.written /\ Len(filtered) > 20) =>
       /\ Len(output.servers) = 20
       /\ \A i \in 1..Len(output.servers) :
            i <= Len(filtered) => ScoreOfRecord(output.servers[i]) = filtered[i].score
  /\ (prog = "gen" /\ output.written /\ Len(gen_servers) > 20) =>
       /\ Len(output.servers) = 20
       /\ \A i \in 1..Len(output.servers) : output.servers[i] = gen_servers[i].item

\* C5 (amended): gen_servers writes the first 20 of its filtered list in
\* score order (all of it when it holds at most 20).  update_servers probes
\* the first 50 of the filtered list in score order, and what it writes is
\* the min(20, R) best-scored of the R candidates found reachable among
\* those 50: records in descending score order, each made from a reachable
\* result, no result used more often than it was received, and every
\* reachable result left out scored no higher than any record written.
C5_Truncation ==
  /\ (prog = "gen" /\ pc = "g_written") =>
       /\ Len(output.servers) = (IF Len(gen_servers) <= 20 THEN Len(gen_servers) ELSE 20)
       /\ \A i \in 1..Len(output.servers) : output.servers[i] = gen_servers[i].item
       /\ \A i, j \in 1..Len(gen_servers) : i < j => gen_servers[i].key >= gen_servers[j].key
  /\ (prog = "update" /\ (output.written \/ (pc \in {"submit", "collect"} /\ nsubmitted = 0))) =>
       /\ Len(candidates) = (IF Len(filtered) <= 50 THEN Len(filtered) ELSE 50)
       /\ candidates = SubSeq(filtered, 1, Len(candidates))
       /\ \A i, j \in 1..Len(filtered) : i < j => filtered[i].score >= filtered[j].score
  /\ (prog = "update" /\ output.written) =>
       LET R == BagCount(collected, IsWorking)
       IN  /\ Len(output.servers) = (IF R <= 20 THEN R ELSE 20)
           /\ \A i \in 1..Len(output.servers) :
                \E r \in BagToSet(collected) :
                  /\ r.is_working
                  /\ r.server.hostname = output.servers[i].name
                  /\ r.server.ip = output.servers[i].endpoint
           /\ \A i, j \in 1..Len(output.servers) :
                i < j => ScoreOfRecord(output.servers[i]) >= ScoreOfRecord(output.servers[j])
           /\ \A r \in BagToSet(collected) :
                r.is_working =>
                  /\ WrittenFrom(r) <= CopiesIn(r, collected)
                  /\ WrittenFrom(r) < CopiesIn(r, collected) =>
                       \A i \in 1..Len(output.servers) :
                         ScoreOfRecord(output.servers[i]) >= r.server.score

\* More than 20 candidates passed the filter and 19 records were written.
C5_Witness ==
  /\ prog = "update"
  /\ output.written
  /\ Len(filtered) > 20
  /\ Len(output.servers) = 19

\* An (optionally signed) decimal numeral.
IsNumeralText(t) ==
  LET body == IF t # <<>> /\ t[1] \in {"-", "+"} THEN Tail(t) ELSE t
  IN  IsDigits(body)

FieldValue(t) == IF IsNumeralText(t) THEN ParseInt(t).val ELSE 0

\* The positions of the data rows of a feed for parse_vpngate_csv: the
\* lines after the header that are neither blank nor start with '*'.
DataRows(lines) ==
  LET h == HeaderIndex(lines)
  IN  IF h = 0 THEN {}
      ELSE {i \in (h + 1)..Len(lines) : ~IsBlank(lines[i]) /\ ~StartsWith(lines[i], "*")}

HasBlob(parts) == Len(parts) >= 15 /\ parts[15] # ""

NumericFieldsOk(parts) == \A k \in {3, 4, 5, 8} : parts[k] = <<>> \/ IsNumeralText(parts[k])

\* servers holds, in row order, one record for each row of `rows`, with the
\* row's fields and FieldValue of its numeric fields.
RecordsOf(lines, rows) ==
  /\ Len(servers) = Cardinality(rows)
  /\ \A i \in rows :
       LET parts == Split(lines[i])
           s     == servers[Cardinality({j \in rows : j <= i})]
       IN  /\ s.hostname = parts[1]
           /\ s.ip = parts[2]
           /\ s.score = FieldValue(parts[3])
           /\ s.ping = FieldValue(parts[4])
           /\ s.speed = FieldValue(parts[5])
           /\ s.country_long = parts[6]
           /\ s.country_short = parts[7]
           /\ s.vpn_sessions = FieldValue(parts[8])
           /\ s.config_base64 = parts[15]

\* parse_vpngate_csv has just returned (or raised); servers does not change
\* afterwards.
Parsed == prog = "update" /\ pc \in {"filter", "end_no_servers", "raised_in_parse"}

GenKept(lines, endnl) ==
  LET h == GenHeaderIndex(lines)
  IN  IF h = 0 THEN {}
      ELSE {i \in (h + 1)..Len(lines) :
              LET parts == Split(lines[i])
              IN  /\ ~IsBlank(lines[i])
                  /\ ~StartsWith(lines[i], "*")
                  /\ Len(parts) >= 15
                  /\ NumericFieldsOk(parts)
                  /\ parts[7] \in GOOGLE_COUNTRIES
                  /\ FieldValue(parts[3]) >= 100000
                  /\ (parts[15] # "" \/ (Len(parts) = 15 /\ (i < Len(lines) \/ endnl)))}

C7_NoWriteWithoutWorking ==
  prog = "update" =>
    /\ output.written =>
         /\ pc = "written"
         /\ csv_data.ok
         /\ servers # <<>>
         /\ filtered # <<>>
         /\ \E r \in BagToSet(collected) : r.is_working
    /\ (pc # "start" /\ (~csv_data.ok \/ csv_data.lines = <<>>)) => pc = "end_download_failed"
    /\ (pc \notin {"start", "parse", "end_download_failed", "raised_in_parse"}
          /\ servers = <<>>) => pc = "end_no_servers"
    /\ (ProbeStageOver /\ BagCount(collected, IsWorking) = 0) => pc = "end_no_working"
    /\ pc \in {"end_download_failed", "end_no_servers", "end_no_working"} =>
         (~output.written /\ ~ENABLED Next)

\* A run that probed candidates, found none reachable, and ended.
C7_Witness ==
  /\ pc = "end_no_working"
  /\ tested > 0
  /\ BagCardinality(collected) = tested

\* C8: at most 10 probe tasks are in progress at any time, and the open
\* sockets are at most one per task in progress, so at most 10.
C8_PoolBound ==
  /\ BagCardinality(running) <= 10
  /\ BagCardinality(sockets) <= BagCardinality(running)
  /\ \A t \in BagToSet(running) :
       CopiesIn(<<t.server.ip, CurrentPort(t)>>, sockets) >= CopiesIn(t, running)

\* Ten tasks in progress while more candidates wait in the queue.
C8_Witness ==
  /\ BagCardinality(running) = 10
  /\ BagCardinality(sockets) = 10
  /\ queue # <<>>

\* C9: once main is past the probe stage (ranking, cut and write), every
\* dispatched task has finished and its result has been received: nothing
\* is queued, running or waiting to be yielded.
C9_DrainBeforeRank ==
  ProbeStageOver =>
    /\ nsubmitted = Len(candidates)
    /\ queue = <<>>
    /\ running = EmptyBag
    /\ sockets = EmptyBag
    /\ done = EmptyBag
    /\ BagCardinality(collected) = Len(candidates)

\* The output was written after more than 20 reachable results had been
\* received.
C9_Witness ==
  /\ pc = "written"
  /\ Len(working_servers) > 20
  /\ BagCardinality(collected) = Len(working_servers)

\* C10: every written record carries a port that answers at the record's
\* address, that the candidate's task tried last and reported, and that is
\* the primary port of the record's configuration or one of 443, 1194,
\* 992, 995.
C10_OutputPorts ==
  (prog = "update" /\ output.written) =>
    \A i \in 1..Len(output.servers) :
      LET rec == output.servers[i]
      IN  /\ Answers(rec.endpoint, rec.port)
          /\ rec.port = ConfigPrimary(rec.config) \/ rec.port \in {443, 1194, 992, 995}
          /\ \E r \in BagToSet(collected) :
               /\ r.is_working
               /\ r.server.ip = rec.endpoint
               /\ r.server.hostname = rec.name
               /\ r.port = rec.port
               /\ r.tried[Len(r.tried)] = rec.port
               /\ r.tried[1] = ConfigPrimary(rec.config)

\* A written record with a fallback port, 992, that is not its primary port.
C10_Witness ==
  /\ prog = "update"
  /\ output.written
  /\ \E i \in 1..Len(output.servers) :
       /\ output.servers[i].port = 992
       /\ ConfigPrimary(output.servers[i].config) # 992

====
